---- MODULE Spec2Model ----
(***************************************************************************)
(* A model of Platforms/EEBBK/s6Pkg/DeviceBuild.py: the platform's static  *)
(* configuration (CommonPlatform), the settings provider (SettingsManager),*)
(* the platform builder (PlatformBuilder) and the command-line entry point.*)
(*                                                                         *)
(* Python strings are TLA+ strings; Len, SubSeq and \o act on them as on   *)
(* sequences of characters.  A Python value whose type matters (a str that *)
(* is iterated, a tuple compared with a str) is a record [ty, v] whose v   *)
(* is always a sequence of strings.                                        *)
(***************************************************************************)
EXTENDS Integers, Sequences, FiniteSets, TLC

VARIABLES
    \* SettingsManager.SetArchitectures
    ActualArchitectures,    \* self.ActualArchitectures (NoAttr until assigned)
    archRequest,            \* argument of the last SetArchitectures call
    archOutcome,            \* "none" | "returned" | "Exception"
    archPrev,               \* self.ActualArchitectures before the last call
    \* SettingsManager.FilterPackagesToTest
    changedFilesList, potentialPackagesList,
    filterOutcome,          \* "none" | "returned"
    filterReturn,           \* the list returned
    \* the filesystem below WorkspaceRoot, the build environment, and the calls
    \* of GetPlatformDscAndConfig and SetPlatformEnv
    fs,                     \* path -> "absent" | "file" | "dir"
    env,                    \* self.env: key -> value (None when unset)
    envEdits,               \* number of values set from outside so far
    lastCall,               \* the last call: operation, what it saw, its outcome
    writes,                 \* history: the keys SetPlatformEnv has written, each with
                            \* the kind of the DSC path when it was written
    \* SettingsManager.GetRequiredSubmodules
    subState,               \* submodule path -> "missing" | "nogit" | "ok"
    subOutcome,             \* "none" | "returned"
    subReturn,              \* the list returned
    subLog,                 \* logging.error records of the call
    \* PlatformBuilder.AddCommandLineOptions / RetrieveCommandLineOptions
    archOption,             \* <<>> when -a is omitted, <<value>> when given
    build_arch,             \* args.build_arch after parsing
    optOutcome,             \* "none" | "returned" | "Exception"
    \* __main__
    cmdline,                \* sys.argv[1:] at start
    pc,                     \* "parse" | "rewrite" | "dispatch" | "exited"
    args,                   \* [setup, update] from parse_known_args
    remaining,              \* unrecognised arguments
    sysArgv,                \* sys.argv
    invoked,                \* the invocables whose Invoke() was called, in order
    raised,                 \* what Invoke() did: "none" | "Exception" | "BaseException"
    caught,                 \* TRUE when an except clause of __main__ ran
    exitCode                \* process exit status (-1 while running)

archVars == <<ActualArchitectures, archRequest, archOutcome, archPrev>>
filterVars == <<changedFilesList, potentialPackagesList, filterOutcome, filterReturn>>
buildVars == <<fs, env, envEdits, lastCall, writes>>
subVars == <<subState, subOutcome, subReturn, subLog>>
optVars == <<archOption, build_arch, optOutcome>>
mainVars == <<cmdline, pc, args, remaining, sysArgv, invoked, raised, caught, exitCode>>
vars == <<archVars, filterVars, buildVars, subVars, optVars, mainVars>>

-----------------------------------------------------------------------------
(* Python values and string helpers *)

Range(s) == { s[i] : i \in DOMAIN s }

\* The characters of a string, each a string of length one (iterating a str).
Chars(s) == { SubSeq(s, i, i) : i \in 1..Len(s) }

PyStr(s) == [ty |-> "str", v |-> <<s>>]
PyList(items) == [ty |-> "list", v |-> items]
PyTuple(items) == [ty |-> "tuple", v |-> items]

\* Python ==: values of different types are unequal.
PyEq(x, y) == x.ty = y.ty /\ x.v = y.v

\* x in [l1, l2, ...]
PyInList(x, lst) == \E i \in DOMAIN lst : PyEq(x, lst[i])

\* set(x): the characters of a str, the items of a list or tuple.
PySet(x) == IF x.ty = "str" THEN Chars(x.v[1]) ELSE Range(x.v)

\* sub in s, for strings
Contains(s, sub) ==
    \E i \in 1..(Len(s) + 1) :
        i + Len(sub) - 1 <= Len(s) /\ SubSeq(s, i, i + Len(sub) - 1) = sub

\* s.rfind(c) + 1: the last position of character c in s, 0 when there is none.
RFind(s, c) ==
    LET hits == { i \in 1..Len(s) : SubSeq(s, i, i) = c }
    IN  IF hits = {} THEN 0 ELSE CHOOSE i \in hits : \A j \in hits : j <= i

\* os.path.splitext(p) (posixpath): split at the last dot of the last path
\* component unless only dots precede it there.
splitext(p) ==
    LET sepIndex == RFind(p, "/")
        dotIndex == RFind(p, ".")
    IN  IF /\ dotIndex > sepIndex
           /\ \E k \in (sepIndex + 1)..(dotIndex - 1) : SubSeq(p, k, k) # "."
        THEN PyTuple(<<SubSeq(p, 1, dotIndex - 1), SubSeq(p, dotIndex, Len(p))>>)
        ELSE PyTuple(<<p, "">>)

-----------------------------------------------------------------------------
(* CommonPlatform *)

\* ("AARCH64") is a parenthesised str, not a one-element tuple.
ArchSupported == PyStr("AARCH64")

DscPath == "s6Pkg/s6.dsc"

-----------------------------------------------------------------------------
(* SettingsManager.SetArchitectures *)

MaxRequestLen == 2

NoAttr == [ty |-> "absent", v |-> <<>>]

ArchNames == {"AARCH64", "X64", "A", "R", "64"}

SeqsUpTo(S, n) == UNION { [1..k -> S] : k \in 0..n }

\* What a caller may pass: a list of architecture names, or (the invocable's
\* default when no -a is given) the value of GetArchitecturesSupported itself.
ArchRequests == { PyList(l) : l \in SeqsUpTo(ArchNames, MaxRequestLen) }
                    \cup {PyStr("AARCH64")}

GetArchitecturesSupported == ArchSupported

Unsupported(req) == PySet(req) \ PySet(GetArchitecturesSupported)

SetArchitectures(req) ==
    /\ archRequest' = req
    /\ archPrev' = ActualArchitectures
    /\ IF Cardinality(Unsupported(req)) > 0
       THEN /\ archOutcome' = "Exception"
            /\ UNCHANGED ActualArchitectures
       ELSE /\ archOutcome' = "returned"
            /\ ActualArchitectures' = req
    /\ UNCHANGED <<filterVars, buildVars, subVars, optVars, mainVars>>

-----------------------------------------------------------------------------
(* SettingsManager.FilterPackagesToTest *)

MaxChanged == 2
MaxPackages == 2

ChangedPaths == {"BaseTools/foo.c", "BaseTools/readme.md", "BaseTools/notes.txt",
                 "unrelated/file.c", ".azurepipelines/platform-build-run-steps.yml"}
PackageNames == {"PkgA", "PkgB"}

\* The loop body: whether changed file f assigns possible_packages and breaks.
FilterBreaks(f) ==
    \/ /\ Contains(f, "BaseTools")
       /\ ~PyInList(splitext(f), <<PyStr(".txt"), PyStr(".md")>>)
    \/ Contains(f, "platform-build-run-steps.yml")

FilterPackagesToTest(changed, potential) ==
    LET possible_packages == potential
    IN  IF \E i \in DOMAIN changed : FilterBreaks(changed[i])
        THEN possible_packages
        ELSE <<>>

CallFilterPackagesToTest ==
    /\ filterOutcome = "none"
    /\ filterOutcome' = "returned"
    /\ filterReturn' = FilterPackagesToTest(changedFilesList, potentialPackagesList)
    /\ UNCHANGED <<changedFilesList, potentialPackagesList>>
    /\ UNCHANGED <<archVars, buildVars, subVars, optVars, mainVars>>

-----------------------------------------------------------------------------
(* The filesystem seen through os.path *)

\* os.path.dirname(os.path.dirname(os.path.abspath(__file__))): the directory
\* above s6Pkg, wherever the repository is checked out.
WorkspaceRoot == "/repo/Platforms/EEBBK"

\* os.path.join(a, b) for a relative b
join(a, b) == a \o "/" \o b

\* os.path.dirname(p) for a path without trailing slash
dirname(p) == SubSeq(p, 1, RFind(p, "/") - 1)

\* os.path.basename(p)
basename(p) == SubSeq(p, RFind(p, "/") + 1, Len(p))

PkgDir == join(WorkspaceRoot, "s6Pkg")
DscFile == join(WorkspaceRoot, DscPath)
ScriptFile == join(PkgDir, "DeviceBuild.py")

FsPaths == {WorkspaceRoot, PkgDir, DscFile, ScriptFile}

\* A path exists only inside an existing directory; s6Pkg is the directory
\* of the script itself, which is there whenever the directory is.
WellFormed(f) ==
    /\ f[WorkspaceRoot] \in {"absent", "dir"}
    /\ f[PkgDir] \in {"absent", "dir"}
    /\ f[ScriptFile] = (IF f[PkgDir] = "dir" THEN "file" ELSE "absent")
    /\ \A p \in FsPaths \ {WorkspaceRoot} :
           f[p] # "absent" => f[dirname(p)] = "dir"

FsStates == { f \in [FsPaths -> {"absent", "file", "dir"}] : WellFormed(f) }

exists(f, p) == p \in DOMAIN f /\ f[p] # "absent"

\* Mutant of isfile: os.path.exists in its place.
isfile_AsExists(f, p) == p \in DOMAIN f /\ f[p] # "absent"

isfile(f, p) == p \in DOMAIN f /\ f[p] = "file"

listdir(f, p) == { basename(q) : q \in { r \in FsPaths \ {WorkspaceRoot} :
                                            dirname(r) = p /\ f[r] # "absent" } }

LogRecord(level, msg, listing) == [level |-> level, msg |-> msg, listing |-> listing]

NoCall == [op |-> "none", dscKind |-> "absent", outcome |-> "none",
           retPath |-> "", retConfig |-> {}, retCode |-> -1, log |-> <<>>]

-----------------------------------------------------------------------------
(* SettingsManager.GetPlatformDscAndConfig *)

GetPlatformDscAndConfigLog(f, dsc_path) ==
    <<LogRecord("ERROR", "DSC file not found at: " \o dsc_path, {}),
      LogRecord("ERROR", "Current directory: ", {})>>
    \o (IF exists(f, dirname(dsc_path))
        THEN <<LogRecord("ERROR", "Directory contents: ", listdir(f, dirname(dsc_path)))>>
        ELSE <<>>)

GetPlatformDscAndConfig ==
    LET dsc_path == join(WorkspaceRoot, DscPath)
    IN  /\ lastCall' =
              IF ~isfile(fs, dsc_path)
              THEN [NoCall EXCEPT !.op = "GetPlatformDscAndConfig",
                                  !.dscKind = fs[DscFile],
                                  !.outcome = "FileNotFoundError",
                                  !.log = GetPlatformDscAndConfigLog(fs, dsc_path)]
              ELSE [NoCall EXCEPT !.op = "GetPlatformDscAndConfig",
                                  !.dscKind = fs[DscFile],
                                  !.outcome = "returned",
                                  !.retPath = DscPath,
                                  !.retConfig = {}]
        /\ UNCHANGED <<fs, env, envEdits, writes>>
        /\ UNCHANGED <<archVars, filterVars, subVars, optVars, mainVars>>

-----------------------------------------------------------------------------
(* The build environment (self.env) and PlatformBuilder.SetPlatformEnv *)

None == "<None>"

\* The table of SetPlatformEnv, in order: a literal value, or the value read
\* from another key by self.env.GetValue at that point.
EnvTable ==
    <<[key |-> "PRODUCT_NAME", from |-> "lit", val |-> "s6"],
      [key |-> "ACTIVE_PLATFORM", from |-> "lit", val |-> DscPath],
      [key |-> "TARGET_ARCH", from |-> "lit", val |-> "AARCH64"],
      [key |-> "TOOL_CHAIN_TAG", from |-> "lit", val |-> "CLANGPDB"],
      [key |-> "EMPTY_DRIVE", from |-> "lit", val |-> "FALSE"],
      [key |-> "RUN_TESTS", from |-> "lit", val |-> "FALSE"],
      [key |-> "SHUTDOWN_AFTER_RUN", from |-> "lit", val |-> "FALSE"],
      [key |-> "BLD_*_BUILDID_STRING", from |-> "lit", val |-> "Unknown"],
      [key |-> "BUILDREPORTING", from |-> "lit", val |-> "TRUE"],
      [key |-> "BUILDREPORT_TYPES", from |-> "lit",
       val |-> "PCD DEPEX FLASH BUILD_FLAGS LIBRARY FIXED_ADDRESS HASH"],
      [key |-> "BLD_*_MEMORY_PROTECTION", from |-> "lit", val |-> "TRUE"],
      [key |-> "BLD_*_SHIP_MODE", from |-> "lit", val |-> "FALSE"],
      [key |-> "BLD_*_FD_BASE", from |-> "env", val |-> "FD_BASE"],
      [key |-> "BLD_*_FD_SIZE", from |-> "env", val |-> "FD_SIZE"],
      [key |-> "BLD_*_FD_BLOCKS", from |-> "env", val |-> "FD_BLOCKS"]>>

EnvKeys == { EnvTable[i].key : i \in DOMAIN EnvTable }
                \cup {"FD_BASE", "FD_SIZE", "FD_BLOCKS"}

\* self.env.GetValue(k): the stored value, None when the key is unset
GetValue(e, k) == e[k]

\* self.env.SetValue(k, v, comment): the store is taken to record the value
SetValue(e, k, v) == [e EXCEPT ![k] = v]

\* Mutant of RowValue: the key's name is passed, not the value read from it.
RowValue_KeyName(e, row) == row.val

\* The value one row of the table passes to SetValue, given the store then.
RowValue(e, row) == IF row.from = "env" THEN GetValue(e, row.val) ELSE row.val

RECURSIVE ApplyTable(_, _)
ApplyTable(e, tbl) ==
    IF tbl = <<>> THEN e
    ELSE ApplyTable(SetValue(e, Head(tbl).key, RowValue(e, Head(tbl))), Tail(tbl))

\* The keys on which applying the table calls SetValue.
TableWrites(tbl) == { tbl[i].key : i \in DOMAIN tbl }

SetPlatformEnvLog(f, workspace, dsc_path) ==
    <<LogRecord("CRITICAL", "DSC file not found: " \o dsc_path, {}),
      LogRecord("CRITICAL", "Current directory: ", {})>>
    \o (IF exists(f, workspace)
        THEN <<LogRecord("CRITICAL", "Workspace contents: ", listdir(f, workspace))>>
        ELSE <<>>)
    \o (IF exists(f, join(workspace, "s6Pkg"))
        THEN <<LogRecord("CRITICAL", "s6Pkg contents: ",
                         listdir(f, join(workspace, "s6Pkg")))>>
        ELSE <<>>)

\* Mutant of DscMissing: only the DSC's directory is looked for.
DscMissing_DirOnly(f, dsc_path) == ~exists(f, dirname(dsc_path))

\* The check at the head of SetPlatformEnv: TRUE when the call must fail.
DscMissing(f, dsc_path) == ~isfile(f, dsc_path)

SetPlatformEnv ==
    LET workspace == WorkspaceRoot
        dsc_path == join(workspace, DscPath)
    IN  /\ IF DscMissing(fs, dsc_path)
           THEN /\ lastCall' = [NoCall EXCEPT !.op = "SetPlatformEnv",
                                              !.dscKind = fs[DscFile],
                                              !.outcome = "FileNotFoundError",
                                              !.log = SetPlatformEnvLog(fs, workspace, dsc_path)]
                /\ UNCHANGED <<env, writes>>
           ELSE /\ env' = ApplyTable(env, EnvTable)
                /\ writes' = writes \cup
                       { [key |-> k, dscKind |-> fs[DscFile]] : k \in TableWrites(EnvTable) }
                /\ lastCall' = [NoCall EXCEPT !.op = "SetPlatformEnv",
                                              !.dscKind = fs[DscFile],
                                              !.outcome = "returned",
                                              !.retCode = 0]
        /\ UNCHANGED <<fs, envEdits>>
        /\ UNCHANGED <<archVars, filterVars, subVars, optVars, mainVars>>

(* The surroundings: the filesystem changes, and the build framework or the
   command line puts values into the environment before SetPlatformEnv runs. *)

MaxEnvEdits == 2

ExternalValues == {"0x9FC00000", "other"}

\* The keys set from outside: the three that SetPlatformEnv passes through,
\* and keys that SetPlatformEnv itself writes, held beforehand.
ExternalKeys == {"FD_BASE", "FD_SIZE", "FD_BLOCKS", "PRODUCT_NAME", "TARGET_ARCH"}

FsChange ==
    /\ \E f \in FsStates \ {fs} : fs' = f
    /\ UNCHANGED <<env, envEdits, lastCall, writes>>
    /\ UNCHANGED <<archVars, filterVars, subVars, optVars, mainVars>>

ExternalSetValue ==
    /\ envEdits < MaxEnvEdits
    /\ \E k \in ExternalKeys, v \in ExternalValues : env' = SetValue(env, k, v)
    /\ envEdits' = envEdits + 1
    /\ UNCHANGED <<fs, lastCall, writes>>
    /\ UNCHANGED <<archVars, filterVars, subVars, optVars, mainVars>>

-----------------------------------------------------------------------------
(* SettingsManager.GetRequiredSubmodules *)

\* RequiredSubmodule(path, optional=True[, recursive=False])
RequiredSubmodule(path, optional, recursive) ==
    [path |-> path, optional |-> optional, recursive |-> recursive]

RequiredSubmodules ==
    <<RequiredSubmodule("Binaries", TRUE, "False"),
      RequiredSubmodule("Common/Mu", TRUE, "default"),
      RequiredSubmodule("Common/Mu_OEM_Sample", TRUE, "default"),
      RequiredSubmodule("Common/Mu_Tiano_Plus", TRUE, "default"),
      RequiredSubmodule("Features/DFCI", TRUE, "default"),
      RequiredSubmodule("Mu_Basecore", TRUE, "default"),
      RequiredSubmodule("Silicon/Arm/Mu_Tiano", TRUE, "default"),
      RequiredSubmodule("Silicium-ACPI", TRUE, "default")>>

SubmodulePaths == { join(WorkspaceRoot, RequiredSubmodules[i].path) :
                        i \in DOMAIN RequiredSubmodules }

\* os.path.exists on a submodule directory and on its .git entry
SubExists(st, sub_path) == st[sub_path] # "missing"
SubGitExists(st, sub_path) == st[sub_path] = "ok"

\* Mutant of SubmoduleCheck: the second test an if, not an elif.
SubmoduleCheck_NoElif(st, submodule) ==
    LET sub_path == join(WorkspaceRoot, submodule.path)
    IN  (IF ~SubExists(st, sub_path)
         THEN <<LogRecord("ERROR", "Submodule path missing: " \o sub_path, {})>>
         ELSE <<>>)
        \o (IF ~SubGitExists(st, sub_path)
            THEN <<LogRecord("ERROR", "Submodule not initialized: " \o sub_path, {})>>
            ELSE <<>>)

\* The body of the validation loop for one submodule: what it logs.
SubmoduleCheck(st, submodule) ==
    LET sub_path == join(WorkspaceRoot, submodule.path)
    IN  IF ~SubExists(st, sub_path)
        THEN <<LogRecord("ERROR", "Submodule path missing: " \o sub_path, {})>>
        ELSE IF ~SubGitExists(st, sub_path)
             THEN <<LogRecord("ERROR", "Submodule not initialized: " \o sub_path, {})>>
             ELSE <<>>

RECURSIVE SubmoduleLoop(_, _)
SubmoduleLoop(st, required) ==
    IF required = <<>> THEN <<>>
    ELSE SubmoduleCheck(st, Head(required)) \o SubmoduleLoop(st, Tail(required))

GetRequiredSubmodules ==
    /\ subOutcome = "none"
    /\ subLog' = SubmoduleLoop(subState, RequiredSubmodules)
    /\ subReturn' = RequiredSubmodules
    /\ subOutcome' = "returned"
    /\ UNCHANGED subState
    /\ UNCHANGED <<archVars, filterVars, buildVars, optVars, mainVars>>

-----------------------------------------------------------------------------
(* PlatformBuilder.AddCommandLineOptions / RetrieveCommandLineOptions *)

LowerLetters == "abcdefghijklmnopqrstuvwxyz"
UpperLetters == "ABCDEFGHIJKLMNOPQRSTUVWXYZ"

\* Position of character c in alphabet a, 0 when it is not there.
IndexIn(a, c) == RFind(a, c)

UpperChar(c) ==
    IF IndexIn(LowerLetters, c) > 0
    THEN SubSeq(UpperLetters, IndexIn(LowerLetters, c), IndexIn(LowerLetters, c))
    ELSE c

LowerChar(c) ==
    IF IndexIn(UpperLetters, c) > 0
    THEN SubSeq(LowerLetters, IndexIn(UpperLetters, c), IndexIn(UpperLetters, c))
    ELSE c

\* str.upper()
RECURSIVE upper(_)
upper(s) ==
    IF Len(s) = 0 THEN ""
    ELSE UpperChar(SubSeq(s, 1, 1)) \o upper(SubSeq(s, 2, Len(s)))

\* Every spelling of s in upper and lower case letters.
RECURSIVE CaseVariants(_)
CaseVariants(s) ==
    IF Len(s) = 0 THEN {""}
    ELSE { c \o r : c \in {UpperChar(SubSeq(s, 1, 1)), LowerChar(SubSeq(s, 1, 1))},
                    r \in CaseVariants(SubSeq(s, 2, Len(s))) }

\* Values a user may give to -a/--arch.
ArchOptionValues ==
    UNION { CaseVariants(n) : n \in {"AARCH64", "AARCH32", "ARM", "IA32", "X64"} }
        \cup {"", "AARCH64,X64", "AARCH64 "}

\* add_argument('-a', "--arch", dest="build_arch", type=str, default="AARCH64")
BuildArchDefault == "AARCH64"

\* The parser built by AddCommandLineOptions parses the command line.
AddCommandLineOptions ==
    /\ optOutcome = "none"
    /\ build_arch' = IF archOption = <<>> THEN BuildArchDefault ELSE archOption[1]
    /\ optOutcome' = "parsed"
    /\ UNCHANGED archOption
    /\ UNCHANGED <<archVars, filterVars, buildVars, subVars, mainVars>>

\* Mutant of InvalidArch: the comparison without upper().
InvalidArch_CaseSensitive(value) == value # "AARCH64"

\* The test of RetrieveCommandLineOptions: TRUE when the value is rejected.
InvalidArch(value) == upper(value) # "AARCH64"

RetrieveCommandLineOptions ==
    /\ optOutcome = "parsed"
    /\ optOutcome' = IF InvalidArch(build_arch) THEN "Exception" ELSE "returned"
    /\ UNCHANGED <<archOption, build_arch>>
    /\ UNCHANGED <<archVars, filterVars, buildVars, subVars, mainVars>>

-----------------------------------------------------------------------------
(* __main__ *)

MaxArgs == 3
MaxStatus == 2

CmdTokens == {"--setup", "--SETUP", "--update", "--UPDATE", "-a", "X64"}

\* os.path.relpath(__file__), from the repository root
SCRIPT_PATH == "Platforms/EEBBK/s6Pkg/DeviceBuild.py"

UpdateFlags == {"--update", "--UPDATE"}
SetupFlags == {"--setup", "--SETUP"}

\* parser.parse_known_args(): the namespace, the unrecognised arguments, and
\* whether the mutually exclusive group was violated (parser.error, exit 2).
\* The flags are taken as spelled in add_argument; an abbreviation argparse
\* accepts stands for the flag it abbreviates.
ParsedUpdate(cl) == \E i \in DOMAIN cl : cl[i] \in UpdateFlags
ParsedSetup(cl) == \E i \in DOMAIN cl : cl[i] \in SetupFlags
GroupConflict(cl) == ParsedUpdate(cl) /\ ParsedSetup(cl)

RECURSIVE Remaining(_)
Remaining(cl) ==
    IF cl = <<>> THEN <<>>
    ELSE IF Head(cl) \in UpdateFlags \cup SetupFlags
         THEN Remaining(Tail(cl))
         ELSE <<Head(cl)>> \o Remaining(Tail(cl))

ParseArgs ==
    /\ pc = "parse"
    /\ IF GroupConflict(cmdline)
       THEN /\ pc' = "exited"
            /\ exitCode' = 2
            /\ UNCHANGED <<args, remaining>>
       ELSE /\ pc' = "rewrite"
            /\ args' = [setup |-> ParsedSetup(cmdline), update |-> ParsedUpdate(cmdline)]
            /\ remaining' = Remaining(cmdline)
            /\ UNCHANGED exitCode
    /\ UNCHANGED <<cmdline, sysArgv, invoked, raised, caught>>
    /\ UNCHANGED <<archVars, filterVars, buildVars, subVars, optVars>>

RewriteArgv ==
    /\ pc = "rewrite"
    /\ sysArgv' = <<"stuart", "-c", SCRIPT_PATH>> \o remaining
    /\ pc' = "dispatch"
    /\ UNCHANGED <<cmdline, args, remaining, invoked, raised, caught, exitCode>>
    /\ UNCHANGED <<archVars, filterVars, buildVars, subVars, optVars>>

\* Mutant of Invocable: the branches for setup and update exchanged.
Invocable_Exchanged(a) ==
    IF a.setup THEN "Edk2Update"
    ELSE IF a.update THEN "Edk2PlatformSetup"
    ELSE "Edk2PlatformBuild"

\* if args.setup: ... elif args.update: ... else: ...
Invocable(a) ==
    IF a.setup THEN "Edk2PlatformSetup"
    ELSE IF a.update THEN "Edk2Update"
    ELSE "Edk2PlatformBuild"

\* Mutant of Handled: a bare except clause.
Handled_BareExcept(kind) == kind # "none"

\* except Exception: an exception is handled when it derives from Exception;
\* SystemExit, KeyboardInterrupt and GeneratorExit do not.
Handled(kind) == kind = "Exception"

\* Invoke() is external: it returns, raises an exception deriving from
\* Exception, or raises one deriving from BaseException only, which ends the
\* process with a status of its own (SystemExit's code, or the interrupt's).
Dispatch ==
    /\ pc = "dispatch"
    /\ invoked' = Append(invoked, Invocable(args))
    /\ \E kind \in {"none", "Exception", "BaseException"}, status \in 0..MaxStatus :
          /\ raised' = kind
          /\ caught' = Handled(kind)
          /\ exitCode' = IF kind = "none" THEN 0
                         ELSE IF Handled(kind) THEN 1
                         ELSE status
    /\ pc' = "exited"
    /\ UNCHANGED <<cmdline, args, remaining, sysArgv>>
    /\ UNCHANGED <<archVars, filterVars, buildVars, subVars, optVars>>

-----------------------------------------------------------------------------
(* Initial states: each specification draws the inputs of its own operations
   and leaves the rest of the state idle. *)

ArchIdle ==
    /\ ActualArchitectures = NoAttr
    /\ archRequest = NoAttr
    /\ archOutcome = "none"
    /\ archPrev = NoAttr

FilterIdle ==
    /\ filterOutcome = "none"
    /\ filterReturn = <<>>

BuildIdle ==
    /\ env = [k \in EnvKeys |-> None]
    /\ envEdits = 0
    /\ lastCall = NoCall
    /\ writes = {}

SubIdle ==
    /\ subOutcome = "none"
    /\ subReturn = <<>>
    /\ subLog = <<>>

OptIdle ==
    /\ build_arch = None
    /\ optOutcome = "none"

MainIdle ==
    /\ pc = "parse"
    /\ args = [setup |-> FALSE, update |-> FALSE]
    /\ remaining = <<>>
    /\ sysArgv = <<SCRIPT_PATH>> \o cmdline
    /\ invoked = <<>>
    /\ raised = "none"
    /\ caught = FALSE
    /\ exitCode = -1

\* One fixed input for the operations a specification does not exercise.
FilterFixed == changedFilesList = <<>> /\ potentialPackagesList = <<>> /\ FilterIdle
BuildFixed == fs = [p \in FsPaths |-> IF p = DscFile THEN "absent"
                                       ELSE IF p = ScriptFile THEN "file" ELSE "dir"]
                 /\ BuildIdle
SubFixed == subState = [p \in SubmodulePaths |-> "ok"] /\ SubIdle
OptFixed == archOption = <<>> /\ OptIdle
MainFixed == cmdline = <<>> /\ MainIdle

InitArch == ArchIdle /\ FilterFixed /\ BuildFixed /\ SubFixed /\ OptFixed /\ MainFixed

InitFilter ==
    /\ changedFilesList \in SeqsUpTo(ChangedPaths, MaxChanged)
    /\ potentialPackagesList \in SeqsUpTo(PackageNames, MaxPackages)
    /\ FilterIdle
    /\ ArchIdle /\ BuildFixed /\ SubFixed /\ OptFixed /\ MainFixed

InitBuild ==
    /\ fs \in FsStates
    /\ BuildIdle
    /\ ArchIdle /\ FilterFixed /\ SubFixed /\ OptFixed /\ MainFixed

InitSub ==
    /\ subState \in [SubmodulePaths -> {"missing", "nogit", "ok"}]
    /\ SubIdle
    /\ ArchIdle /\ FilterFixed /\ BuildFixed /\ OptFixed /\ MainFixed

InitOpt ==
    /\ archOption \in {<<>>} \cup { <<v>> : v \in ArchOptionValues }
    /\ OptIdle
    /\ ArchIdle /\ FilterFixed /\ BuildFixed /\ SubFixed /\ MainFixed

InitMain ==
    /\ cmdline \in SeqsUpTo(CmdTokens, MaxArgs)
    /\ MainIdle
    /\ ArchIdle /\ FilterFixed /\ BuildFixed /\ SubFixed /\ OptFixed

NextArch == \E req \in ArchRequests : SetArchitectures(req)

NextFilter == CallFilterPackagesToTest

NextBuild ==
    \/ GetPlatformDscAndConfig
    \/ SetPlatformEnv
    \/ FsChange
    \/ ExternalSetValue

NextSub == GetRequiredSubmodules

NextOpt ==
    \/ AddCommandLineOptions
    \/ RetrieveCommandLineOptions

NextMain ==
    \/ ParseArgs
    \/ RewriteArgv
    \/ Dispatch

SpecArch == InitArch /\ [][NextArch]_vars
SpecFilter == InitFilter /\ [][NextFilter]_vars
SpecBuild == InitBuild /\ [][NextBuild]_vars
SpecSub == InitSub /\ [][NextSub]_vars
SpecOpt == InitOpt /\ [][NextOpt]_vars
SpecMain == InitMain /\ [][NextMain]_vars

-----------------------------------------------------------------------------
(* Claims *)

EndsWith(s, suffix) ==
    Len(suffix) <= Len(s) /\ SubSeq(s, Len(s) - Len(suffix) + 1, Len(s)) = suffix

\* C1: SetArchitectures called with the collection whose only element is
\* "AARCH64" returns without raising, and ActualArchitectures is then the
\* requested collection.
C1_AARCH64Accepted ==
    (archOutcome # "none" /\ PyEq(archRequest, PyList(<<"AARCH64">>)))
        => (archOutcome = "returned" /\ PyEq(ActualArchitectures, archRequest))

\* C2: a requested list with an element other than "AARCH64" makes
\* SetArchitectures raise and leave ActualArchitectures as it was; so a
\* recorded list never holds an element other than "AARCH64".
C2_OnlyAARCH64Recorded ==
    /\ (archOutcome # "none" /\ archRequest.ty = "list"
            /\ ~(Range(archRequest.v) \subseteq {"AARCH64"}))
          => (archOutcome = "Exception" /\ PyEq(ActualArchitectures, archPrev))
    /\ ActualArchitectures.ty = "list"
          => Range(ActualArchitectures.v) \subseteq {"AARCH64"}

\* The trigger as the claim states it: a changed path that contains
\* "BaseTools" and whose extension is neither .txt nor .md, or a changed path
\* that contains "platform-build-run-steps.yml".
ClaimedTrigger(changed) ==
    \E i \in DOMAIN changed :
        \/ /\ Contains(changed[i], "BaseTools")
           /\ splitext(changed[i]).v[2] \notin {".txt", ".md"}
        \/ Contains(changed[i], "platform-build-run-steps.yml")

\* C3: FilterPackagesToTest returns all candidates when the claimed trigger
\* holds of the changed files, and the empty list otherwise.
C3_FilterByExtension ==
    filterOutcome = "returned"
        => filterReturn = IF ClaimedTrigger(changedFilesList)
                          THEN potentialPackagesList ELSE <<>>

\* C4: GetPlatformDscAndConfig raises FileNotFoundError when the DSC path is
\* not a file on disk, whatever its parent directory is, and returns
\* (DscPath, {}) when it is; nothing else happens.
C4_DscResolution ==
    lastCall.op = "GetPlatformDscAndConfig"
        => IF lastCall.dscKind = "file"
           THEN /\ lastCall.outcome = "returned"
                /\ lastCall.retPath = "s6Pkg/s6.dsc"
                /\ lastCall.retConfig = {}
           ELSE lastCall.outcome = "FileNotFoundError"

\* A call that raised while the DSC's parent directory did not exist either.
C4_Witness ==
    /\ lastCall.op = "GetPlatformDscAndConfig"
    /\ lastCall.outcome = "FileNotFoundError"
    /\ Len(lastCall.log) = 2
    /\ fs[PkgDir] = "absent"

\* C5: a SetPlatformEnv call that finds no DSC file raises FileNotFoundError
\* and writes nothing to the environment; every key SetPlatformEnv has ever
\* written was written while the DSC file was present.
C5_NoWriteWithoutDsc ==
    /\ [](\A w \in writes : w.dscKind = "file")
    /\ [][(SetPlatformEnv /\ fs[DscFile] # "file")
             => /\ lastCall'.outcome = "FileNotFoundError"
                /\ env' = env
                /\ writes' = writes]_vars

\* A failed call after an earlier successful one: the DSC file was removed.
C5_Witness ==
    /\ lastCall.op = "SetPlatformEnv"
    /\ lastCall.outcome = "FileNotFoundError"
    /\ writes # {}
    /\ env["PRODUCT_NAME"] = "s6"

ClaimedMode(cl) ==
    IF \E i \in DOMAIN cl : cl[i] \in {"--setup", "--SETUP"} THEN "Edk2PlatformSetup"
    ELSE IF \E i \in DOMAIN cl : cl[i] \in {"--update", "--UPDATE"} THEN "Edk2Update"
    ELSE "Edk2PlatformBuild"

BothModes(cl) ==
    /\ \E i \in DOMAIN cl : cl[i] \in {"--setup", "--SETUP"}
    /\ \E i \in DOMAIN cl : cl[i] \in {"--update", "--UPDATE"}

\* C7: a run invokes at most one invocable, the one of its mode; a command
\* line with both a setup and an update flag is rejected by the parser with
\* sys.argv not rewritten and nothing invoked.
C7_OneInvocableOfTheMode ==
    /\ Len(invoked) <= 1
    /\ invoked # <<>> => invoked[1] = ClaimedMode(cmdline)
    /\ BothModes(cmdline)
          => /\ invoked = <<>>
             /\ sysArgv = <<SCRIPT_PATH>> \o cmdline
             /\ pc \in {"parse", "exited"}
             /\ pc = "exited" => exitCode = 2

\* A run in update mode, chosen by the upper-case flag, with other arguments.
C7_Witness ==
    /\ pc = "exited"
    /\ cmdline = <<"-a", "--UPDATE", "X64">>
    /\ invoked = <<"Edk2Update">>
    /\ sysArgv = <<"stuart", "-c", SCRIPT_PATH, "-a", "X64">>

\* C8 as stated: whatever Invoke() raises is caught and the process exits
\* with 1, and the exit code is 1 only then (0 when nothing was raised).
C8_AnyExceptionCaught ==
    (pc = "exited" /\ invoked # <<>>)
        => /\ raised # "none" => (caught /\ exitCode = 1)
           /\ exitCode = 1 => (raised # "none" /\ caught)
           /\ raised = "none" => exitCode = 0

\* C8 amended: an exception deriving from Exception is caught and the process
\* exits with 1; a normal return exits with 0; an exception that derives from
\* BaseException only is not caught by __main__.
C8_ExceptionCaught ==
    (pc = "exited" /\ invoked # <<>>)
        => /\ raised = "Exception" => (caught /\ exitCode = 1)
           /\ raised = "none" => (~caught /\ exitCode = 0)
           /\ raised = "BaseException" => ~caught
           /\ caught => raised = "Exception"

C8_Witness ==
    /\ pc = "exited"
    /\ invoked = <<"Edk2PlatformSetup">>
    /\ raised = "Exception"
    /\ caught
    /\ exitCode = 1

\* The number of log records that name path p.
LoggedFor(lg, p) == Cardinality({ i \in DOMAIN lg : EndsWith(lg[i].msg, ": " \o p) })

\* C9: GetRequiredSubmodules never raises, returns the same eight submodules
\* in the same order whatever the filesystem holds, and logs exactly one
\* error for each submodule that is missing or has no .git entry, none for
\* the others.
C9_SubmoduleValidationAdvisory ==
    subOutcome = "returned"
        => /\ [i \in DOMAIN subReturn |-> subReturn[i].path]
                 = <<"Binaries", "Common/Mu", "Common/Mu_OEM_Sample",
                     "Common/Mu_Tiano_Plus", "Features/DFCI", "Mu_Basecore",
                     "Silicon/Arm/Mu_Tiano", "Silicium-ACPI">>
           /\ \A p \in SubmodulePaths :
                  LoggedFor(subLog, p) = IF subState[p] = "ok" THEN 0 ELSE 1
           /\ Len(subLog) = Cardinality({ p \in SubmodulePaths : subState[p] # "ok" })
           /\ \A i \in DOMAIN subLog : subLog[i].level = "ERROR"

\* A call with one submodule missing, one uninitialised and the rest in place.
C9_Witness ==
    /\ subOutcome = "returned"
    /\ subState[join(WorkspaceRoot, "Binaries")] = "missing"
    /\ subState[join(WorkspaceRoot, "Common/Mu")] = "nogit"
    /\ \A p \in SubmodulePaths \ {join(WorkspaceRoot, "Binaries"),
                                  join(WorkspaceRoot, "Common/Mu")} : subState[p] = "ok"
    /\ Len(subLog) = 2

\* C10 as stated: an omitted -a gives AARCH64, which is accepted; every given
\* value other than "AARCH64" is rejected.
C10_OnlyExactAARCH64 ==
    optOutcome \in {"returned", "Exception"}
        => /\ archOption = <<>> => (build_arch = "AARCH64" /\ optOutcome = "returned")
           /\ (archOption # <<>> /\ archOption[1] # "AARCH64") => optOutcome = "Exception"

\* C10 amended: an omitted -a gives AARCH64, which is accepted; a given value
\* is accepted when it spells AARCH64 in any mix of upper and lower case and
\* rejected otherwise.
C10_AARCH64AnyCase ==
    optOutcome \in {"returned", "Exception"}
        => /\ archOption = <<>> => (build_arch = "AARCH64" /\ optOutcome = "returned")
           /\ archOption # <<>>
                 => (optOutcome = "returned" <=> archOption[1] \in CaseVariants("AARCH64"))

C10_Witness ==
    /\ optOutcome = "returned"
    /\ archOption = <<"aarch64">>

====
